---- MODULE Spec2Model ----
(***************************************************************************)
(* KeycloakOIDCMiddleware (middleware-examples/python/fastapi_oidc_mw.py): *)
(* discovery bootstrap, the JWKS key cache with its TTL, and token         *)
(* validation, as coroutines on one asyncio event loop.  A step of the     *)
(* model is what one coroutine runs between two suspension points; the     *)
(* only suspension points are the two network requests.                    *)
(***************************************************************************)
EXTENDS Integers, Sequences, FiniteSets, TLC

(***************************************************************************)
(* Bounds and configuration                                                *)
(***************************************************************************)
\* jwks_cache_ttl, scaled from the default of 300 seconds
jwks_cache_ttl == 1
\* number of clock ticks the model follows after start-up
MaxTicks == 2
\* time.time() at start-up: far more than a TTL after the epoch, so that the
\* initial jwks_last_fetch of 0 is stale
StartTime == jwks_cache_ttl + 1
MaxTime == StartTime + MaxTicks

Procs == {"r1", "r2"}

client_id == "project-web"
Absent == "<absent>"

(***************************************************************************)
(* The identity provider                                                   *)
(***************************************************************************)
GoodIssuer == "https://idp/realms/r"
GoodJwksUri == "https://idp/realms/r/jwks"

Doc(iss, uri) == [loaded |-> TRUE, issuer |-> iss, jwks_uri |-> uri]
\* self.oidc_config = None
NoConfig == [loaded |-> FALSE, issuer |-> Absent, jwks_uri |-> Absent]

\* what the discovery endpoint may answer: a failure, or a JSON document
DiscoveryDocs ==
    { Doc(GoodIssuer, GoodJwksUri),
      Doc(Absent, GoodJwksUri),
      Doc("", GoodJwksUri),
      Doc(GoodIssuer, Absent),
      Doc(GoodIssuer, "") }
DiscoveryFailures == {"neterr", "httperr", "badjson"}

Kids == {"k1", "k2"}
NoKey == "<nokey>"
\* an empty dict of keys
EmptyKeys == [k \in Kids |-> NoKey]

Entry(kid, mat, alg) == [kid |-> kid, mat |-> mat, alg |-> alg]
\* the key sets the provider publishes over time (key rotation)
Generations ==
    << << Entry("k1", "A", "RS256") >>,
       << Entry("k2", "B", "RS256"), Entry("k1", "A", "RS256") >> >>
\* entries jwk.construct or key_data['kid'] fails on
BadEntries == { Entry("k2", "E", "RSA-OAEP"), Entry(Absent, "A", "RS256") }

InsertAt(s, i, e) == SubSeq(s, 1, i - 1) \o <<e>> \o SubSeq(s, i, Len(s))

Body(kind, entries) == [kind |-> kind, entries |-> entries]
\* what a GET of uri may answer while the provider publishes generation g
Bodies(uri, g) ==
    IF uri = "" THEN { Body("neterr", <<>>) }
    ELSE { Body(k, <<>>) : k \in {"neterr", "httperr", "badjson", "nokeys"} }
         \cup { Body("json", Generations[g]) }
         \cup { Body("json", InsertAt(Generations[g], i, e)) :
                  i \in 1..(Len(Generations[g]) + 1), e \in BadEntries }

(***************************************************************************)
(* Tokens                                                                  *)
(***************************************************************************)
Roles == {"admin", "editor", "user"}
\* the payload's realm_access member, when it has one, and its roles
RealmAccess(roles) == [present |-> TRUE, roles |-> roles]
NoRealmAccess == [present |-> FALSE, roles |-> {}]
Claims(aud, iss, exp) ==
    [aud |-> aud, iss |-> iss, exp |-> exp, realm_access |-> NoRealmAccess]
WithRoles(claims, roles) == [claims EXCEPT !.realm_access = RealmAccess(roles)]
Token(kid, alg, signer, claims) ==
    [kid |-> kid, alg |-> alg, signer |-> signer, payload |-> claims]
FarExp == MaxTime + 1
GoodClaims == Claims({client_id}, GoodIssuer, FarExp)
Tokens ==
    { Token("k1", "RS256", "A", GoodClaims),
      Token("k2", "RS256", "B", GoodClaims),
      Token("", "RS256", "A", GoodClaims),
      Token("k1", "RS256", "B", GoodClaims),
      Token("k1", "HS256", "A", GoodClaims),
      Token("k1", "RS256", "A", Claims({"other"}, GoodIssuer, FarExp)),
      Token("k1", "RS256", "A", Claims({client_id}, "", FarExp)),
      Token("k1", "RS256", "A", Claims({client_id}, GoodIssuer, StartTime + 1)) }
\* the tokens of the requests that come through the route dependencies
DepTokens ==
    { Token("k1", "RS256", "A", GoodClaims),
      Token("k1", "RS256", "A", WithRoles(GoodClaims, {"user"})),
      Token("k1", "RS256", "A", WithRoles(GoodClaims, {"editor", "user"})),
      Token("k1", "RS256", "A", WithRoles(GoodClaims, {})),
      Token("k1", "RS256", "B", WithRoles(GoodClaims, {"admin"})),
      Token("", "RS256", "A", WithRoles(GoodClaims, {"admin"})) }
\* the role lists the routes require
RequiredRoles == { {}, {"admin"}, {"admin", "editor"}, {"user"} }
NoClaims == Claims({}, Absent, 0)
NoToken == Token("", "none", "none", NoClaims)

VARIABLES oidc_config, initpc, jwks_keys, jwks_last_fetch, now, providerGen,
          pc, token, current_time, result, okFetchAt,
          entry, required, response

\* the route dependency a request came through, and what it answered
depvars == << entry, required, response >>

vars == << oidc_config, initpc, jwks_keys, jwks_last_fetch, now, providerGen,
           pc, token, current_time, result, okFetchAt, entry, required, response >>


Result(status, detail, claims, refresh) ==
    [status |-> status, detail |-> detail, claims |-> claims, refresh |-> refresh]
NoResult == Result("none", "", NoClaims, "notcalled")

(***************************************************************************)
(* get_jwks_keys                                                           *)
(***************************************************************************)
\* IsStale with a plausible fault: the comparison forgets the TTL
IsStale_NoTtl(ct, last) == (ct - last) > 0

\* (current_time - self.jwks_last_fetch) > self.jwks_cache_ttl
IsStale(ct, last) == (ct - last) > jwks_cache_ttl

\* self.oidc_config['jwks_uri'] evaluates (no TypeError, no KeyError)
HasJwksUri(cfg) == cfg.loaded /\ cfg.jwks_uri # Absent

\* jwk.construct(key_data) succeeds
Constructible(e) == e.alg = "RS256"

\* the loop over jwks_data['keys'], filling keys entry by entry until one raises
RECURSIVE ParseKeys(_, _)
ParseKeys(entries, keys) ==
    IF entries = <<>> THEN [keys |-> keys, raised |-> FALSE]
    ELSE LET e == Head(entries) IN
         IF e.kid = Absent \/ ~Constructible(e)
         THEN [keys |-> keys, raised |-> TRUE]
         ELSE ParseKeys(Tail(entries), [keys EXCEPT ![e.kid] = e.mat])

\* Refresh with a plausible fault: a successful refresh does not set
\* jwks_last_fetch
Refresh_NoStamp(body, keys, last, ct) ==
    IF body.kind \in {"neterr", "httperr", "badjson"}
    THEN [keys |-> keys, last |-> last, raised |-> TRUE]
    ELSE IF body.kind = "nokeys"
    THEN [keys |-> EmptyKeys, last |-> last, raised |-> TRUE]
    ELSE LET r == ParseKeys(body.entries, EmptyKeys) IN
         [keys |-> r.keys, last |-> last, raised |-> r.raised]

\* Refresh with a plausible fault: jwks_last_fetch is set before the
\* request, so that a failed refresh advances it too
Refresh_StampFirst(body, keys, last, ct) ==
    IF body.kind \in {"neterr", "httperr", "badjson"}
    THEN [keys |-> keys, last |-> ct, raised |-> TRUE]
    ELSE IF body.kind = "nokeys"
    THEN [keys |-> EmptyKeys, last |-> ct, raised |-> TRUE]
    ELSE LET r == ParseKeys(body.entries, EmptyKeys) IN
         [keys |-> r.keys, last |-> ct, raised |-> r.raised]

\* the try block once the response has arrived: the cache it leaves behind
\* and whether it raised
Refresh(body, keys, last, ct) ==
    IF body.kind \in {"neterr", "httperr", "badjson"}
    THEN [keys |-> keys, last |-> last, raised |-> TRUE]
    ELSE IF body.kind = "nokeys"
    THEN [keys |-> EmptyKeys, last |-> last, raised |-> TRUE]
    ELSE LET r == ParseKeys(body.entries, EmptyKeys) IN
         IF r.raised THEN [keys |-> r.keys, last |-> last, raised |-> TRUE]
         ELSE [keys |-> r.keys, last |-> ct, raised |-> FALSE]

\* the except block: re-raise only when there are no cached keys
Reraises(keys) == keys = EmptyKeys

(***************************************************************************)
(* validate_token                                                          *)
(***************************************************************************)
\* MissingKid with a plausible fault: the test for a kid is left out
MissingKid_Never(t) == FALSE

\* if not kid
MissingKid(t) == t.kid = ""

\* Decode with a plausible fault: the expiry check is switched off
Decode_NoExp(t, key, audience, issuer, nowT) ==
    IF t.alg # "RS256" THEN "alg not allowed"
    ELSE IF t.signer # key THEN "signature"
    ELSE IF audience \notin t.payload.aud THEN "audience"
    ELSE IF t.payload.iss # issuer THEN "issuer"
    ELSE ""

\* jwt.decode(token, key, algorithms=['RS256'], audience=..., issuer=...):
\* "" when the token is accepted, else what it rejects the token for
Decode(t, key, audience, issuer, nowT) ==
    IF t.alg # "RS256" THEN "alg not allowed"
    ELSE IF t.signer # key THEN "signature"
    ELSE IF t.payload.exp < nowT THEN "expired"
    ELSE IF audience \notin t.payload.aud THEN "audience"
    ELSE IF t.payload.iss # issuer THEN "issuer"
    ELSE ""

\* AfterKeys with a plausible fault: the key is indexed without the
\* membership test, a KeyError
AfterKeys_NoMembershipTest(t, keys, cfg, nowT, refresh) ==
    IF keys[t.kid] = NoKey
    THEN Result("error", "keyerror", NoClaims, refresh)
    ELSE IF ~cfg.loaded \/ cfg.issuer = Absent
    THEN Result("error", "issuer", NoClaims, refresh)
    ELSE LET why == Decode(t, keys[t.kid], client_id, cfg.issuer, nowT) IN
         IF why = "" THEN Result("claims", "", t.payload, refresh)
         ELSE Result("http401", why, NoClaims, refresh)

\* validate_token from the return of get_jwks_keys on
AfterKeys(t, keys, cfg, nowT, refresh) ==
    IF keys[t.kid] = NoKey
    THEN Result("http401", "unknown key", NoClaims, refresh)
    ELSE IF ~cfg.loaded \/ cfg.issuer = Absent
    THEN Result("error", "issuer", NoClaims, refresh)
    ELSE LET why == Decode(t, keys[t.kid], client_id, cfg.issuer, nowT) IN
         IF why = "" THEN Result("claims", "", t.payload, refresh)
         ELSE Result("http401", why, NoClaims, refresh)

\* validate_token from the point where get_jwks_keys leaves its try block
AfterRefresh(t, keys, raised, cfg, nowT) ==
    IF raised /\ Reraises(keys)
    THEN Result("error", "jwks", NoClaims, "failed")
    ELSE AfterKeys(t, keys, cfg, nowT, IF raised THEN "failed" ELSE "ok")

(***************************************************************************)
(* has_role and the route dependencies                                     *)
(***************************************************************************)
\* has_role with a plausible fault: every required role is asked for
HasRole_All(user_payload, required_roles) ==
    IF required_roles = {} THEN TRUE
    ELSE LET user_roles == IF user_payload.realm_access.present
                           THEN user_payload.realm_access.roles ELSE {}
         IN \A role \in required_roles : role \in user_roles

\* has_role(user_payload, required_roles)
HasRole(user_payload, required_roles) ==
    IF required_roles = {} THEN TRUE
    ELSE LET user_roles == IF user_payload.realm_access.present
                           THEN user_payload.realm_access.roles ELSE {}
         IN \E role \in required_roles : role \in user_roles

\* the user dict built from a payload: its roles and the payload itself
User(payload) ==
    [roles |-> IF payload.realm_access.present
               THEN payload.realm_access.roles ELSE {},
     token_payload |-> payload]
NoUser == [roles |-> {}, token_payload |-> NoClaims]

Response(status, user, roleChecked) ==
    [status |-> status, user |-> user, roleChecked |-> roleChecked]
NoResponse == Response("none", NoUser, FALSE)

\* Respond with a plausible fault: the roles are looked at before the
\* outcome of the validation
Respond_RolesFirst(e, req, r) ==
    IF e = "validate_token" THEN NoResponse
    ELSE IF e = "require_roles" /\ ~HasRole(r.claims, req)
    THEN Response("http403", NoUser, TRUE)
    ELSE IF r.status = "claims"
    THEN Response("user", User(r.claims), e = "require_roles")
    ELSE IF r.status = "error" THEN Response("error", NoUser, e = "require_roles")
    ELSE IF e = "optional" THEN Response("None", NoUser, FALSE)
    ELSE Response("http401", NoUser, e = "require_roles")

\* what the dependency e answers once validate_token has ended with r:
\* get_current_user turns an HTTPException into None, require_auth lets
\* it through, require_roles asks has_role about the validated payload
Respond(e, req, r) ==
    IF e = "validate_token" THEN NoResponse
    ELSE IF r.status = "claims"
    THEN IF e = "require_roles" /\ ~HasRole(r.claims, req)
         THEN Response("http403", NoUser, TRUE)
         ELSE Response("user", User(r.claims), e = "require_roles")
    ELSE IF r.status = "error" THEN Response("error", NoUser, FALSE)
    ELSE IF e = "optional" THEN Response("None", NoUser, FALSE)
    ELSE Response("http401", NoUser, FALSE)

(***************************************************************************)
(* The state machine                                                       *)
(***************************************************************************)
Init ==
    /\ oidc_config = NoConfig
    /\ initpc = "created"
    /\ jwks_keys = EmptyKeys
    /\ jwks_last_fetch = 0
    /\ now = StartTime
    /\ providerGen = 1
    /\ pc = [p \in Procs |-> "idle"]
    /\ token = [p \in Procs |-> NoToken]
    /\ current_time = [p \in Procs |-> 0]
    /\ result = [p \in Procs |-> NoResult]
    /\ okFetchAt = 0
    /\ entry = [p \in Procs |-> "validate_token"]
    /\ required = [p \in Procs |-> {}]
    /\ response = [p \in Procs |-> NoResponse]

\* the task created by __init__ starts and sends the discovery request
InitStart ==
    /\ initpc = "created"
    /\ initpc' = "fetching"
    /\ UNCHANGED << oidc_config, jwks_keys, jwks_last_fetch, now, providerGen,
                    pc, token, current_time, result, okFetchAt >>
    /\ UNCHANGED depvars

\* the discovery response arrives
InitDone ==
    /\ initpc = "fetching"
    /\ \/ /\ \E f \in DiscoveryFailures : initpc' = "failed"
          /\ UNCHANGED oidc_config
       \/ /\ \E d \in DiscoveryDocs : oidc_config' = d
          /\ initpc' = "done"
    /\ UNCHANGED << jwks_keys, jwks_last_fetch, now, providerGen,
                    pc, token, current_time, result, okFetchAt >>
    /\ UNCHANGED depvars

Finish(p, r) ==
    /\ pc' = [pc EXCEPT ![p] = "done"]
    /\ result' = [result EXCEPT ![p] = r]
    /\ current_time' = [current_time EXCEPT ![p] = 0]

\* validate_token(t) up to its first suspension point or its end
Call(p, t) ==
    /\ pc[p] = "idle"
    /\ token' = [token EXCEPT ![p] = t]
    /\ IF MissingKid(t)
       THEN /\ Finish(p, Result("http401", "missing kid", NoClaims, "notcalled"))
            /\ UNCHANGED << jwks_keys, jwks_last_fetch >>
       ELSE IF ~IsStale(now, jwks_last_fetch)
       THEN /\ Finish(p, AfterKeys(t, jwks_keys, oidc_config, now, "fresh"))
            /\ UNCHANGED << jwks_keys, jwks_last_fetch >>
       ELSE IF ~HasJwksUri(oidc_config)
       THEN /\ Finish(p, AfterRefresh(t, jwks_keys, TRUE, oidc_config, now))
            /\ UNCHANGED << jwks_keys, jwks_last_fetch >>
       ELSE /\ pc' = [pc EXCEPT ![p] = "fetching"]
            /\ current_time' = [current_time EXCEPT ![p] = now]
            /\ UNCHANGED << jwks_keys, jwks_last_fetch, result >>
    /\ UNCHANGED << oidc_config, initpc, now, providerGen, okFetchAt >>

\* the JWKS response arrives: the rest of get_jwks_keys and of validate_token
FetchDone(p) ==
    /\ pc[p] = "fetching"
    /\ \E body \in Bodies(oidc_config.jwks_uri, providerGen) :
         LET r == Refresh(body, jwks_keys, jwks_last_fetch, current_time[p]) IN
         /\ jwks_keys' = r.keys
         /\ jwks_last_fetch' = r.last
         /\ okFetchAt' = IF r.raised THEN okFetchAt ELSE current_time[p]
         /\ Finish(p, AfterRefresh(token[p], r.keys, r.raised, oidc_config, now))
    /\ UNCHANGED << oidc_config, initpc, now, providerGen, token >>

\* the caller has taken the outcome; the next request may come
Return(p) ==
    /\ pc[p] = "done"
    /\ pc' = [pc EXCEPT ![p] = "idle"]
    /\ token' = [token EXCEPT ![p] = NoToken]
    /\ result' = [result EXCEPT ![p] = NoResult]
    /\ UNCHANGED << oidc_config, initpc, jwks_keys, jwks_last_fetch, now,
                    providerGen, current_time, okFetchAt >>

\* time.time() advances
Tick ==
    /\ now < MaxTime
    /\ now' = now + 1
    /\ UNCHANGED << oidc_config, initpc, jwks_keys, jwks_last_fetch, providerGen,
                    pc, token, current_time, result, okFetchAt >>
    /\ UNCHANGED depvars

\* the provider rotates its keys
Rotate ==
    /\ providerGen < Len(Generations)
    /\ providerGen' = providerGen + 1
    /\ UNCHANGED << oidc_config, initpc, jwks_keys, jwks_last_fetch, now,
                    pc, token, current_time, result, okFetchAt >>
    /\ UNCHANGED depvars

\* a request with credentials t comes through e ("validate_token": the
\* method is called as such), which awaits validate_token(t)
Request(p, e, req, t) ==
    /\ Call(p, t)
    /\ entry' = [entry EXCEPT ![p] = e]
    /\ required' = [required EXCEPT ![p] = req]
    /\ response' = [response EXCEPT ![p] =
                       IF pc'[p] = "done" THEN Respond(e, req, result'[p])
                       ELSE NoResponse]

\* a request without credentials: validate_token is not called
NoCredentials(p, e, req) ==
    /\ pc[p] = "idle"
    /\ pc' = [pc EXCEPT ![p] = "done"]
    /\ entry' = [entry EXCEPT ![p] = e]
    /\ required' = [required EXCEPT ![p] = req]
    /\ response' = [response EXCEPT ![p] =
                       IF e = "optional" THEN Response("None", NoUser, FALSE)
                       ELSE Response("http401", NoUser, FALSE)]
    /\ UNCHANGED << oidc_config, initpc, jwks_keys, jwks_last_fetch, now,
                    providerGen, token, current_time, result, okFetchAt >>

\* the awaited validate_token resumes with the JWKS response and ends
Answer(p) ==
    /\ FetchDone(p)
    /\ response' = [response EXCEPT ![p] =
                       Respond(entry[p], required[p], result'[p])]
    /\ UNCHANGED << entry, required >>

\* the request is over
Leave(p) ==
    /\ Return(p)
    /\ entry' = [entry EXCEPT ![p] = "validate_token"]
    /\ required' = [required EXCEPT ![p] = {}]
    /\ response' = [response EXCEPT ![p] = NoResponse]

Next ==
    \/ InitStart
    \/ InitDone
    \/ \E p \in Procs, t \in Tokens : Request(p, "validate_token", {}, t)
    \/ \E p \in Procs : Answer(p)
    \/ \E p \in Procs : Leave(p)
    \/ Tick
    \/ Rotate

Spec == Init /\ [][Next]_vars

\* one request at a time: the calls of a sequential caller
SeqProc == "r1"
NextSeq ==
    \/ InitStart
    \/ InitDone
    \/ \E t \in Tokens : Request(SeqProc, "validate_token", {}, t)
    \/ Answer(SeqProc)
    \/ Leave(SeqProc)
    \/ Tick
    \/ Rotate

SpecSeq == Init /\ [][NextSeq]_vars

\* one request at a time through the route dependencies
Entries == {"require_auth", "require_roles", "optional"}
\* only require_roles is given a role list
RequiredFor(e) == IF e = "require_roles" THEN RequiredRoles ELSE { {} }
NextDeps ==
    \/ InitStart
    \/ InitDone
    \/ \E e \in Entries : \E req \in RequiredFor(e), t \in DepTokens :
          Request(SeqProc, e, req, t)
    \/ \E e \in Entries : \E req \in RequiredFor(e) :
          NoCredentials(SeqProc, e, req)
    \/ Answer(SeqProc)
    \/ Leave(SeqProc)
    \/ Tick
    \/ Rotate

SpecDeps == Init /\ [][NextDeps]_vars

(***************************************************************************)
(* Properties                                                              *)
(***************************************************************************)
\* the complete key set of a JWKS document
KeySetOf(entries) ==
    [k \in Kids |->
        IF \E i \in 1..Len(entries) : entries[i].kid = k
        THEN entries[CHOOSE i \in 1..Len(entries) : entries[i].kid = k].mat
        ELSE NoKey]
ProviderKeys == KeySetOf(Generations[providerGen])

\* p's validate_token call ends in this step
Completes(p) == pc[p] # "done" /\ pc'[p] = "done"
\* p's JWKS request is answered in this step
Answered(p) == pc[p] = "fetching" /\ pc'[p] = "done"
\* p's get_jwks_keys call sends a JWKS request in this step
Fetches(p) == pc[p] # "fetching" /\ pc'[p] = "fetching"
\* get_jwks_keys raised in the call that left result r
KeysRaised(r) == r.status = "error" /\ r.detail = "jwks"

\* the discovery document is loaded, with an issuer and a jwks_uri
ConfigComplete(cfg) ==
    cfg.loaded /\ cfg.issuer \notin {Absent, ""} /\ cfg.jwks_uri \notin {Absent, ""}

\* C1: once a successful refresh has populated the cache with a non-empty
\* key set, a get_jwks_keys call whose refresh fails, for whatever reason,
\* still returns the cached key set unchanged, and the lookup of a cached kid
\* in it succeeds.
C1_FailSoft ==
    [][\A p \in Procs :
         (/\ Answered(p)
          /\ ConfigComplete(oidc_config)
          /\ result'[p].refresh = "failed"
          /\ jwks_last_fetch # 0
          /\ jwks_keys # EmptyKeys)
         => /\ ~KeysRaised(result'[p])
            /\ jwks_keys' = jwks_keys
            /\ (jwks_keys[token[p].kid] # NoKey
                  => result'[p].detail # "unknown key")]_vars

\* C2: the cache changes only by taking the complete key set of the JWKS
\* document a fetch has just delivered: it is never left emptied or partly
\* filled.
C2_FullReplacement ==
    [][(ConfigComplete(oidc_config) /\ jwks_keys' # jwks_keys)
          => jwks_keys' = ProviderKeys]_vars

\* C3: no token is accepted unless the discovery document has been fetched
\* and holds a non-empty issuer and a non-empty jwks_uri.
C3_FailClosedDiscovery ==
    \A p \in Procs :
        (pc[p] = "done" /\ result[p].status = "claims") => ConfigComplete(oidc_config)

C5_ValidTokenAccepted ==
    [][\A p \in Procs :
         LET t == token'[p] IN
         (/\ Completes(p)
          /\ ~MissingKid(t)
          /\ t.alg = "RS256"
          /\ ProviderKeys[t.kid] = t.signer
          /\ client_id \in t.payload.aud
          /\ oidc_config.loaded
          /\ t.payload.iss = oidc_config.issuer
          /\ t.payload.exp >= now
          /\ \/ result'[p].refresh = "ok"
             \/ jwks_keys[t.kid] = t.signer)
         => /\ result'[p].status = "claims"
            /\ result'[p].claims = t.payload]_vars

\* C6: when the key set get_jwks_keys returns, from a fresh cache or after
\* a successful refresh, lacks the token's kid, validate_token fails with
\* the 401 for an unknown key; and no token is accepted whose kid is not in
\* the returned key set.
C6_UnknownKey ==
    [][\A p \in Procs : Completes(p) =>
         LET t == token'[p]
             r == result'[p]
         IN /\ (/\ ~MissingKid(t)
                /\ r.refresh \in {"fresh", "ok"}
                /\ jwks_keys'[t.kid] = NoKey)
               => (r.status = "http401" /\ r.detail = "unknown key")
            /\ (~MissingKid(t) /\ jwks_keys'[t.kid] = NoKey)
               => r.status # "claims"]_vars
C6_Witness ==
    \E p, q \in Procs :
        /\ pc[p] = "done" /\ result[p].detail = "unknown key"
        /\ result[p].refresh = "fresh"
        /\ pc[q] = "done" /\ result[q].detail = "unknown key"
        /\ result[q].refresh = "ok"

\* C7: a validate_token call whose key lookup failed in the key cache (the
\* refresh failed) never ends in anything but accepted claims or a 401.
C7_CacheErrorIs401 ==
    \A p \in Procs :
        (pc[p] = "done" /\ result[p].refresh = "failed")
            => result[p].status \in {"claims", "http401"}

\* C8: while no JWKS fetch has ever succeeded, a get_jwks_keys call whose
\* fetch fails raises the error, and leaves the cache empty and
\* jwks_last_fetch unchanged.
C8_FailClosedFirstFetch ==
    [][\A p \in Procs :
         (/\ Answered(p)
          /\ ConfigComplete(oidc_config)
          /\ result'[p].refresh = "failed"
          /\ okFetchAt = 0)
         => /\ KeysRaised(result'[p])
            /\ jwks_keys' = EmptyKeys
            /\ jwks_last_fetch' = jwks_last_fetch]_vars

\* C9: a sequential caller's get_jwks_keys call sends a JWKS request exactly
\* when more than the TTL has passed since the start of the last call whose
\* fetch succeeded, and then sends one only: calls within the TTL of a
\* successful fetch send none, the first call after it sends one more.
C9_OneFetchPerWindow ==
    [][/\ (/\ pc[SeqProc] = "idle" /\ pc'[SeqProc] # "idle"
           /\ ~MissingKid(token'[SeqProc])
           /\ HasJwksUri(oidc_config))
          => (Fetches(SeqProc) <=> (now - okFetchAt > jwks_cache_ttl))
       /\ pc[SeqProc] = "fetching" => pc'[SeqProc] \in {"fetching", "done"}]_vars
C9_Witness ==
    /\ pc[SeqProc] = "fetching"
    /\ okFetchAt # 0

\* C10: a JWKS request is sent only in a state where the current time is
\* more than the TTL past jwks_last_fetch.
C10_FetchOnlyWhenStale ==
    [][\A p \in Procs :
         Fetches(p) => (now - jwks_last_fetch > jwks_cache_ttl)]_vars
C10_Witness ==
    /\ jwks_last_fetch # 0
    /\ \A p \in Procs : pc[p] = "fetching"

\* p's validate_token call starts in this step
Starts(p) == pc[p] = "idle" /\ pc'[p] # "idle"

\* C11: a key lookup is answered without a JWKS request only when the cache
\* is fresh and holds the kid; in every other case, a kid absent from a
\* fresh cache included, a request is sent first, and the lookup never
\* fails as an unknown key without a refresh.
C11_RefreshOnMiss ==
    [][\A p \in Procs :
         /\ (/\ Starts(p)
             /\ ~MissingKid(token'[p])
             /\ ConfigComplete(oidc_config))
            => (~Fetches(p) <=>
                  (/\ now - jwks_last_fetch <= jwks_cache_ttl
                   /\ jwks_keys[token'[p].kid] # NoKey))
         /\ (/\ Completes(p)
             /\ ConfigComplete(oidc_config)
             /\ result'[p].detail = "unknown key")
            => result'[p].refresh # "fresh"]_vars

\* C12: when the last of several JWKS requests in flight is answered
\* successfully, the cache holds the key set and the start time of the
\* successful fetch that started last, whichever was answered last.
C12_LatestFetchWins ==
    [][\A p \in Procs :
         (/\ Answered(p)
          /\ ConfigComplete(oidc_config)
          /\ result'[p].refresh = "ok"
          /\ \A q \in Procs : pc'[q] # "fetching")
         => IF current_time[p] >= jwks_last_fetch
            THEN jwks_last_fetch' = current_time[p] /\ jwks_keys' = ProviderKeys
            ELSE jwks_last_fetch' = jwks_last_fetch /\ jwks_keys' = jwks_keys]_vars

\* C15: init stores a discovery document only when the document holds both
\* issuer and jwks_uri, and init completes without failing only then.
C15_DiscoveryChecked ==
    /\ oidc_config.loaded
         => (oidc_config.issuer # Absent /\ oidc_config.jwks_uri # Absent)
    /\ initpc = "done"
         => (/\ oidc_config.loaded
             /\ oidc_config.issuer # Absent
             /\ oidc_config.jwks_uri # Absent)

\* C16: a token whose header has no kid is rejected with the 401 for a
\* missing kid in the step that starts the call: no JWKS request is sent
\* and jwks_keys and jwks_last_fetch stay as they are, whatever the state
\* of the cache.
C16_MissingKidShortCircuit ==
    [][\A p \in Procs :
         (Starts(p) /\ token'[p].kid = "")
         => /\ pc'[p] = "done"
            /\ result'[p].status = "http401"
            /\ result'[p].detail = "missing kid"
            /\ result'[p].refresh = "notcalled"
            /\ jwks_keys' = jwks_keys
            /\ jwks_last_fetch' = jwks_last_fetch]_vars
C16_Witness ==
    \E p \in Procs :
        /\ pc[p] = "done"
        /\ result[p].detail = "missing kid"
        /\ HasJwksUri(oidc_config)
        /\ now - jwks_last_fetch > jwks_cache_ttl

\* C17: a refresh that fails leaves jwks_last_fetch as it was, so the cache
\* is still stale; a call that finds the cache stale sends a JWKS request
\* (there is no other retry); and a request that is answered well replaces
\* the cache with the fetched key set and the call's start time.
C17_RetryOnNextRequest ==
    [][/\ (Answered(SeqProc) /\ result'[SeqProc].refresh = "failed")
          => /\ jwks_last_fetch' = jwks_last_fetch
             /\ now - jwks_last_fetch' > jwks_cache_ttl
       /\ (/\ Starts(SeqProc)
           /\ ~MissingKid(token'[SeqProc])
           /\ HasJwksUri(oidc_config)
           /\ now - jwks_last_fetch > jwks_cache_ttl)
          => Fetches(SeqProc)
       /\ Fetches(SeqProc) => Starts(SeqProc)
       /\ (Answered(SeqProc) /\ result'[SeqProc].refresh = "ok")
          => /\ jwks_keys' = ProviderKeys
             /\ jwks_last_fetch' = current_time[SeqProc]]_vars
C17_Witness ==
    /\ pc[SeqProc] = "done"
    /\ result[SeqProc].refresh = "failed"
    /\ result[SeqProc].status = "claims"
    /\ jwks_last_fetch # 0
    /\ now - jwks_last_fetch > jwks_cache_ttl

\* C18: jwks_last_fetch never decreases.
C18_FetchedAtMonotonic ==
    [][ConfigComplete(oidc_config) => jwks_last_fetch' >= jwks_last_fetch]_vars

\* the roles a payload grants: those of realm_access, none without it
PayloadRoles(payload) ==
    IF payload.realm_access.present THEN payload.realm_access.roles ELSE {}

\* the request of p came through require_roles and has been answered
RolesAnswered(p) == pc[p] = "done" /\ entry[p] = "require_roles"

C14_RolesAfterAuthentication ==
    \A p \in Procs :
      RolesAnswered(p)
      => /\ response[p].roleChecked => result[p].status = "claims"
         /\ result[p].status \in {"none", "http401"}
            => (response[p].status = "http401" /\ ~response[p].roleChecked)
         /\ response[p].status = "http403"
            => /\ result[p].status = "claims"
               /\ required[p] # {}
               /\ required[p] \cap PayloadRoles(result[p].claims) = {}

\* a rejected token on a route that requires roles is answered 401
C14_Witness ==
    \E p \in Procs :
      /\ RolesAnswered(p) /\ required[p] # {}
      /\ result[p].status = "http401" /\ result[p].detail # "missing kid"
      /\ response[p].status = "http401"

\* C19: get_current_user never fails the request: it answers None without
\* credentials and for every failure of validate_token, a failed key fetch
\* and a missing discovery document included, and a principal, built from
\* the validated payload, only when validate_token succeeded.
C19_OptionalNeverFails ==
    \A p \in Procs :
      (pc[p] = "done" /\ entry[p] = "optional")
      => /\ response[p].status \in {"user", "None"}
         /\ response[p].status = "user" <=> result[p].status = "claims"
         /\ response[p].status = "user"
            => response[p].user = User(result[p].claims)

====
